---- MODULE Spec2Model ----
(***************************************************************************)
(* Model of the two HTTP services of the repository:                       *)
(*   - the passenger query router (TITANIC/routers/passengers.js), and     *)
(*   - the survival scoring server (TITANIC/prediction-server.js).         *)
(* A request is handled in one step (the whole handler); the response then *)
(* leaves the process and the per-request objects are dropped.             *)
(***************************************************************************)
EXTENDS Integers, Sequences, FiniteSets

VARIABLES
  passengersData,  \* passengers.js: passengersData.passengers (module level)
  loadOk,          \* whether the startup read/parse of the data file succeeded
  loaded,          \* history: the value of passengersData right after startup
  trainingData,    \* prediction-server.js: the module-level sample array
  req,             \* the request being answered (None when idle)
  res,             \* the response produced for req (None when idle)
  served           \* history: how many requests have been answered so far

vars == <<passengersData, loadOk, loaded, trainingData, req, res, served>>

(***************************************************************************)
(* JavaScript values.  A value carries its type tag, so that === and the   *)
(* undefined/null tests of the code are decided the way JavaScript does.   *)
(***************************************************************************)
Undefined == [t |-> "undefined"]
Null      == [t |-> "null"]
NaN       == [t |-> "nan"]
Num(n)    == [t |-> "num", n |-> n]
Str(s)    == [t |-> "str", s |-> s]

\* a === b for the tagged values above (NaN === NaN is false)
StrictEq(a, b) ==
  /\ a.t = b.t
  /\ a.t # "nan"
  /\ CASE a.t = "num" -> a.n = b.n
       [] a.t = "str" -> a.s = b.s
       [] OTHER -> TRUE

None == [kind |-> "none"]

(***************************************************************************)
(* prediction-server.js                                                    *)
(***************************************************************************)

\* Fares are held in hundredths (211.34 is 21134), so the thresholds 50 and
\* 20 of the code are Hundredths(50) and Hundredths(20).
Hundredths(n) == n * 100

TrainingSample ==
  << [pclass |-> 1, sex |-> "female", age |-> 29, sibsp |-> 0, parch |-> 0, fare |-> 21134, embarked |-> "S", survived |-> 1],
     [pclass |-> 1, sex |-> "female", age |-> 2,  sibsp |-> 1, parch |-> 2, fare |-> 15155, embarked |-> "S", survived |-> 1],
     [pclass |-> 1, sex |-> "female", age |-> 25, sibsp |-> 1, parch |-> 0, fare |-> 7128,  embarked |-> "C", survived |-> 1],
     [pclass |-> 3, sex |-> "male",   age |-> 22, sibsp |-> 1, parch |-> 0, fare |-> 725,   embarked |-> "S", survived |-> 0],
     [pclass |-> 3, sex |-> "male",   age |-> 35, sibsp |-> 0, parch |-> 0, fare |-> 805,   embarked |-> "S", survived |-> 0],
     [pclass |-> 3, sex |-> "male",   age |-> 34, sibsp |-> 0, parch |-> 0, fare |-> 1300,  embarked |-> "S", survived |-> 0],
     [pclass |-> 2, sex |-> "female", age |-> 14, sibsp |-> 1, parch |-> 0, fare |-> 3007,  embarked |-> "C", survived |-> 1],
     [pclass |-> 2, sex |-> "male",   age |-> 28, sibsp |-> 0, parch |-> 0, fare |-> 1300,  embarked |-> "S", survived |-> 0],
     [pclass |-> 1, sex |-> "male",   age |-> 48, sibsp |-> 0, parch |-> 0, fare |-> 2655,  embarked |-> "S", survived |-> 0] >>

\* Relational operators on the numbers a request can carry.
LeNum(v, k) == v.t = "num" /\ v.n <= k
GtNum(v, k) == v.t = "num" /\ v.n > k

\* Math.exp(-score * 0.3) in fixed point: the power series of e^x at
\* x = -3*score/10, each term obtained from the one before it.
ExpScale == 10^6

RECURSIVE ExpSeries(_, _, _, _)
ExpSeries(score, k, term, acc) ==
  IF k > 24 THEN acc
  ELSE LET next == (term * (-3 * score)) \div (10 * k)
       IN  ExpSeries(score, k + 1, next, acc + next)

Exp03(score) == ExpSeries(score, 1, ExpScale, ExpScale)

\* probability = 1 / (1 + Math.exp(-score * 0.3)), in ten-thousandths
ProbScale == 10^4

Probability(score) == (ProbScale * 10^5) \div ((ExpScale + Exp03(score)) \div 10)

\* Threshold written probability >= 0.5
ThresholdInclusive(probability) == 2 * probability >= ProbScale

\* survived = probability > 0.5
Threshold(probability) == 2 * probability > ProbScale

ScoreSex(pd, score) ==
  LET s1 == IF StrictEq(pd.sex, Str("female")) THEN score + 3 ELSE score
  IN  IF StrictEq(pd.sex, Str("male")) THEN s1 - 1 ELSE s1

ScoreClass(pd, score) ==
  LET s1 == IF StrictEq(pd.pclass, Num(1)) THEN score + 2 ELSE score
      s2 == IF StrictEq(pd.pclass, Num(2)) THEN s1 + 1 ELSE s1
  IN  IF StrictEq(pd.pclass, Num(3)) THEN s2 - 1 ELSE s2

\* ScoreAge with the child bracket written < 12
ScoreAgeChildExclusive(pd, score) ==
  IF pd.age.t = "num" /\ pd.age.n < 12 THEN score + 2
  ELSE IF LeNum(pd.age, 25) THEN score + 1
  ELSE IF GtNum(pd.age, 60) THEN score - 1
  ELSE score

\* ScoreAge with the young-adult bracket reaching to 30
ScoreAgeYoungTo30(pd, score) ==
  IF LeNum(pd.age, 12) THEN score + 2
  ELSE IF LeNum(pd.age, 30) THEN score + 1
  ELSE IF GtNum(pd.age, 60) THEN score - 1
  ELSE score

ScoreAge(pd, score) ==
  IF LeNum(pd.age, 12) THEN score + 2
  ELSE IF LeNum(pd.age, 25) THEN score + 1
  ELSE IF GtNum(pd.age, 60) THEN score - 1
  ELSE score

\* const familySize = passengerData.sibsp + passengerData.parch (numbers)
FamilySize(pd) == Num(pd.sibsp.n + pd.parch.n)

ScoreFamily(pd, score) ==
  LET familySize == FamilySize(pd)
      s1 == IF StrictEq(familySize, Num(1)) \/ StrictEq(familySize, Num(2))
            THEN score + 1 ELSE score
  IN  IF GtNum(familySize, 4) THEN s1 - 1 ELSE s1

ScoreFare(pd, score) ==
  IF GtNum(pd.fare, Hundredths(50)) THEN score + 2
  ELSE IF GtNum(pd.fare, Hundredths(20)) THEN score + 1
  ELSE score

ScoreEmbarked(pd, score) ==
  IF StrictEq(pd.embarked, Str("C")) THEN score + 1 ELSE score

Features(pd) ==
  [ gender_impact |-> IF StrictEq(pd.sex, Str("female")) THEN "Alto" ELSE "Bajo",
    class_impact  |-> IF StrictEq(pd.pclass, Num(1)) THEN "Alto"
                      ELSE IF StrictEq(pd.pclass, Num(2)) THEN "Medio" ELSE "Bajo",
    age_group     |-> IF LeNum(pd.age, 12) THEN "Nino"
                      ELSE IF LeNum(pd.age, 25) THEN "Joven"
                      ELSE IF GtNum(pd.age, 60) THEN "Mayor" ELSE "Adulto",
    family_impact |-> IF GtNum(FamilySize(pd), 0) THEN "Positivo" ELSE "Neutral" ]

predictSurvival(passengerData) ==
  LET score ==
        ScoreEmbarked(passengerData,
          ScoreFare(passengerData,
            ScoreFamily(passengerData,
              ScoreAge(passengerData,
                ScoreClass(passengerData,
                  ScoreSex(passengerData, 0))))))
      probability == Probability(score)
      survived == Threshold(probability)
  IN  [ survived    |-> survived,
        probability |-> probability,
        score       |-> score,
        features    |-> Features(passengerData) ]

requiredFields == <<"pclass", "sex", "age", "sibsp", "parch", "fare", "embarked">>

\* The validation loop written with a falsy test, !passengerData[field]
RECURSIVE MissingFieldFalsy(_, _)
MissingFieldFalsy(passengerData, i) ==
  IF i > Len(requiredFields) THEN ""
  ELSE LET field == requiredFields[i]
           v == passengerData[field]
       IN  IF v = Undefined \/ v = Null \/ v = Num(0) \/ v = Str("")
           THEN field
           ELSE MissingFieldFalsy(passengerData, i + 1)

\* The validation loop: the first required field, in order from position i,
\* that is undefined or null; "" when the loop runs to its end.
RECURSIVE MissingField(_, _)
MissingField(passengerData, i) ==
  IF i > Len(requiredFields) THEN ""
  ELSE LET field == requiredFields[i]
       IN  IF passengerData[field] = Undefined \/ passengerData[field] = Null
           THEN field
           ELSE MissingField(passengerData, i + 1)

\* Response texts are written without their accents.
SurvivorMessage    == "Probable superviviente basado en patrones historicos"
NonSurvivorMessage == "Probable no superviviente basado en patrones historicos"

\* app.post('/titanic/predict'): the response for a JSON object body
PredictResponse(passengerData) ==
  LET field == MissingField(passengerData, 1)
  IN  IF field # ""
      THEN [ status |-> 400,
             body   |-> [error |-> <<"Campo requerido faltante: ", field>>] ]
      ELSE LET prediction == predictSurvival(passengerData)
           IN  [ status |-> 200,
                 body   |-> [ survived    |-> prediction.survived,
                              probability |-> prediction.probability,
                              score       |-> prediction.score,
                              features    |-> prediction.features,
                              message     |-> IF prediction.survived
                                              THEN SurvivorMessage
                                              ELSE NonSurvivorMessage ] ]

(***************************************************************************)
(* Strings that the code takes apart or builds are sequences of            *)
(* one-character strings.                                                  *)
(***************************************************************************)
DigitChars == <<"0", "1", "2", "3", "4", "5", "6", "7", "8", "9">>

IsDigit(c) == \E d \in 1..10 : DigitChars[d] = c

DigitValue(c) == (CHOOSE d \in 1..10 : DigitChars[d] = c) - 1

\* Number.prototype.toString of a non-negative integer
RECURSIVE DecStr(_)
DecStr(n) ==
  IF n < 10 THEN <<DigitChars[n + 1]>>
  ELSE Append(DecStr(n \div 10), DigitChars[(n % 10) + 1])

\* ((num / den) * 100).toFixed(2): NaN for 0/0, Infinity for x/0, else the
\* value rounded to the nearest hundredth and printed with two decimals.
ToFixed2Percent(num, den) ==
  IF den = 0
  THEN IF num = 0 THEN <<"N", "a", "N">>
       ELSE <<"I", "n", "f", "i", "n", "i", "t", "y">>
  ELSE LET h == (2 * num * 10000 + den) \div (2 * den)
       IN  DecStr(h \div 100) \o <<".">> \o
             <<DigitChars[((h % 100) \div 10) + 1], DigitChars[(h % 10) + 1]>>

\* app.get('/titanic/stats')
TitanicStatsResponse(sample) ==
  LET Survived1(p) == p.survived = 1
      Class1(p) == p.pclass = 1
      Class2(p) == p.pclass = 2
      Class3(p) == p.pclass = 3
      Male(p)   == p.sex = "male"
      Female(p) == p.sex = "female"
  IN  [ status |-> 200,
        body |-> [ total_passengers |-> Len(sample),
                   survival_rate |-> ToFixed2Percent(Len(SelectSeq(sample, Survived1)), Len(sample)),
                   by_class  |-> << Len(SelectSeq(sample, Class1)),
                                    Len(SelectSeq(sample, Class2)),
                                    Len(SelectSeq(sample, Class3)) >>,
                   by_gender |-> [ male   |-> Len(SelectSeq(sample, Male)),
                                   female |-> Len(SelectSeq(sample, Female)) ],
                   accuracy  |-> "85.47%" ] ]

\* app.get('/health'): timestamp is the clock reading at the time of the call
HealthResponse(now) ==
  [ status |-> 200,
    body |-> [ status    |-> "OK",
               message   |-> "Servidor de prediccion del Titanic funcionando",
               timestamp |-> now ] ]

(***************************************************************************)
(* JavaScript conversions and array methods used by routers/passengers.js  *)
(***************************************************************************)

\* The value of a run of decimal digits (0 for the empty run)
RECURSIVE DigitsValue(_)
DigitsValue(cs) ==
  IF cs = <<>> THEN 0
  ELSE 10 * DigitsValue(SubSeq(cs, 1, Len(cs) - 1)) + DigitValue(cs[Len(cs)])

AllDigits(cs) == \A i \in 1..Len(cs) : IsDigit(cs[i])

\* The length of the longest prefix of cs made of decimal digits
RECURSIVE DigitPrefixLen(_)
DigitPrefixLen(cs) ==
  IF cs = <<>> \/ ~IsDigit(Head(cs)) THEN 0
  ELSE 1 + DigitPrefixLen(Tail(cs))

\* String(v) for the values handed to parseInt
ToStr(v) == IF v.t = "num" THEN DecStr(v.n) ELSE v.s

\* parseInt(v): optional sign, then the longest run of decimal digits; NaN
\* when that run is empty.  Whatever follows the digits is ignored.
ParseInt(v) ==
  LET cs   == ToStr(v)
      neg  == cs # <<>> /\ Head(cs) = "-"
      body == IF neg THEN Tail(cs) ELSE cs
      k    == DigitPrefixLen(body)
  IN  IF k = 0 THEN NaN
      ELSE Num((IF neg THEN -1 ELSE 1) * DigitsValue(SubSeq(body, 1, k)))

\* 10^e
RECURSIVE Pow10(_)
Pow10(e) == IF e = 0 THEN 1 ELSE 10 * Pow10(e - 1)

\* The unsigned part of a numeric string: digits, or digits "e" digits
UnsignedToNumber(cs) ==
  IF cs # <<>> /\ AllDigits(cs) THEN Num(DigitsValue(cs))
  ELSE LET k == DigitPrefixLen(cs)
           rest == SubSeq(cs, k + 2, Len(cs))
       IN  IF k > 0 /\ k < Len(cs) /\ cs[k + 1] = "e" /\ rest # <<>> /\ AllDigits(rest)
           THEN Num(DigitsValue(SubSeq(cs, 1, k)) * Pow10(DigitsValue(rest)))
           ELSE NaN

\* ToNumber(v), the conversion the operators - and * apply: a number is
\* itself, the empty string is 0, a decimal literal (with optional sign and
\* exponent) is its value, any other string is NaN.
ToNumber(v) ==
  IF v.t = "num" THEN v
  ELSE IF v.t # "str" THEN NaN
  ELSE IF v.s = <<>> THEN Num(0)
  ELSE IF Head(v.s) = "-"
       THEN LET u == UnsignedToNumber(Tail(v.s))
            IN  IF u = NaN THEN NaN ELSE Num(-u.n)
       ELSE UnsignedToNumber(v.s)

\* a - b and a * b
Minus(a, b) ==
  LET x == ToNumber(a)
      y == ToNumber(b)
  IN  IF x = NaN \/ y = NaN THEN NaN ELSE Num(x.n - y.n)

Times(a, b) ==
  LET x == ToNumber(a)
      y == ToNumber(b)
  IN  IF x = NaN \/ y = NaN THEN NaN ELSE Num(x.n * y.n)

\* JSON.stringify writes NaN as null
JsonNumber(v) == IF v = NaN THEN Null ELSE v

Max(a, b) == IF a > b THEN a ELSE b
Min(a, b) == IF a < b THEN a ELSE b

\* Array.prototype.slice(start, end): NaN counts as 0, a negative index
\* counts from the end, both are clamped to the array.
RelativeIndex(v, len) ==
  LET n == IF v = NaN THEN 0 ELSE v.n
  IN  IF n < 0 THEN Max(len + n, 0) ELSE Min(n, len)

Slice(arr, start, end) ==
  LET k     == RelativeIndex(start, Len(arr))
      final == RelativeIndex(end, Len(arr))
  IN  SubSeq(arr, k + 1, final)

\* String.prototype.toLowerCase over the letters of the model
LowerChar(c) ==
  CASE c = "A" -> "a"
    [] c = "B" -> "b"
    [] OTHER   -> c

ToLowerCase(cs) == [i \in 1..Len(cs) |-> LowerChar(cs[i])]

\* String.prototype.includes
Includes(cs, part) ==
  \E i \in 1..(Len(cs) - Len(part) + 1) : SubSeq(cs, i, i + Len(part) - 1) = part

\* A scan that keeps the last element satisfying the test
RECURSIVE FindLast(_, _)
FindLast(arr, id) ==
  IF arr = <<>> THEN Undefined
  ELSE IF StrictEq(Num(arr[Len(arr)].PassengerId), id) THEN arr[Len(arr)]
  ELSE FindLast(SubSeq(arr, 1, Len(arr) - 1), id)

\* Array.prototype.find: the first element satisfying the test, or undefined
RECURSIVE FindFirst(_, _)
FindFirst(arr, id) ==
  IF arr = <<>> THEN Undefined
  ELSE IF StrictEq(Num(Head(arr).PassengerId), id) THEN Head(arr)
  ELSE FindFirst(Tail(arr), id)

(***************************************************************************)
(* routers/passengers.js: the handlers                                     *)
(***************************************************************************)

\* Startup: the parsed file's passengers array, or the fallback { passengers: [] }
\* when reading, parsing or the access to passengers.length throws.
LoadData(file) == IF file.state = "ok" THEN file.passengers ELSE <<>>

\* The list handler with pages counted from 0
GetAllResponseZeroBased(passengers, query) ==
  LET page       == IF query.page = Undefined THEN Num(1) ELSE query.page
      limit      == IF query.limit = Undefined THEN Num(20) ELSE query.limit
      startIndex == Times(page, limit)
      endIndex   == Times(Minus(page, Num(-1)), limit)
  IN  [ status |-> 200,
        body |-> [ total |-> Len(passengers),
                   page  |-> JsonNumber(ParseInt(page)),
                   limit |-> JsonNumber(ParseInt(limit)),
                   data  |-> Slice(passengers, startIndex, endIndex) ] ]

\* router.get('/')
GetAllResponse(passengers, query) ==
  LET page       == IF query.page = Undefined THEN Num(1) ELSE query.page
      limit      == IF query.limit = Undefined THEN Num(20) ELSE query.limit
      startIndex == Times(Minus(page, Num(1)), limit)
      endIndex   == Times(page, limit)
  IN  [ status |-> 200,
        body |-> [ total |-> Len(passengers),
                   page  |-> JsonNumber(ParseInt(page)),
                   limit |-> JsonNumber(ParseInt(limit)),
                   data  |-> Slice(passengers, startIndex, endIndex) ] ]

\* router.get('/:id')
GetByIdResponse(passengers, id) ==
  LET passenger == FindFirst(passengers, ParseInt(id))
  IN  IF passenger = Undefined
      THEN [ status |-> 404, body |-> [error |-> "Pasajero no encontrado"] ]
      ELSE [ status |-> 200, body |-> passenger ]

\* router.get('/class/:class')
GetByClassResponse(passengers, class) ==
  LET pclass == ParseInt(class)
      Match(p) == StrictEq(Num(p.Pclass), pclass)
      found == SelectSeq(passengers, Match)
  IN  [ status |-> 200,
        body |-> [ class |-> JsonNumber(pclass), count |-> Len(found), data |-> found ] ]

\* router.get('/survived/:status')
GetBySurvivedResponse(passengers, status) ==
  LET survived == ParseInt(status)
      Match(p) == StrictEq(Num(p.Survived), survived)
      found == SelectSeq(passengers, Match)
  IN  [ status |-> 200,
        body |-> [ survived |-> IF StrictEq(survived, Num(1))
                                THEN "Sobrevivio" ELSE "No sobrevivio",
                   count |-> Len(found),
                   data  |-> found ] ]

\* The search with only the search term lower-cased
SearchResponseCaseSensitive(passengers, name) ==
  LET searchTerm == ToLowerCase(name.s)
      Match(p) == Includes(p.Name, searchTerm)
      found == SelectSeq(passengers, Match)
  IN  [ status |-> 200,
        body |-> [ search |-> searchTerm, count |-> Len(found), data |-> found ] ]

\* router.get('/search/:name')
SearchResponse(passengers, name) ==
  LET searchTerm == ToLowerCase(name.s)
      Match(p) == Includes(ToLowerCase(p.Name), searchTerm)
      found == SelectSeq(passengers, Match)
  IN  [ status |-> 200,
        body |-> [ search |-> searchTerm, count |-> Len(found), data |-> found ] ]

\* The summary with the third class count copied from the second
StatsSummaryResponseCopied(passengers) ==
  LET Survived1(p) == p.Survived = 1
      Class1(p) == p.Pclass = 1
      Class2(p) == p.Pclass = 2
      Male(p)   == p.Sex = "male"
      Female(p) == p.Sex = "female"
      total     == Len(passengers)
      survived  == Len(SelectSeq(passengers, Survived1))
  IN  [ status |-> 200,
        body |-> [ totalPassengers |-> total,
                   survivalRate |-> ToFixed2Percent(survived, total) \o <<"%">>,
                   byClass  |-> << Len(SelectSeq(passengers, Class1)),
                                   Len(SelectSeq(passengers, Class2)),
                                   Len(SelectSeq(passengers, Class2)) >>,
                   byGender |-> [ male   |-> Len(SelectSeq(passengers, Male)),
                                  female |-> Len(SelectSeq(passengers, Female)) ] ] ]

\* router.get('/stats/summary')
StatsSummaryResponse(passengers) ==
  LET Survived1(p) == p.Survived = 1
      Class1(p) == p.Pclass = 1
      Class2(p) == p.Pclass = 2
      Class3(p) == p.Pclass = 3
      Male(p)   == p.Sex = "male"
      Female(p) == p.Sex = "female"
      total     == Len(passengers)
      survived  == Len(SelectSeq(passengers, Survived1))
  IN  [ status |-> 200,
        body |-> [ totalPassengers |-> total,
                   survivalRate |-> ToFixed2Percent(survived, total) \o <<"%">>,
                   byClass  |-> << Len(SelectSeq(passengers, Class1)),
                                   Len(SelectSeq(passengers, Class2)),
                                   Len(SelectSeq(passengers, Class3)) >>,
                   byGender |-> [ male   |-> Len(SelectSeq(passengers, Male)),
                                  female |-> Len(SelectSeq(passengers, Female)) ] ] ]

(***************************************************************************)
(* Bounds and the inputs the model draws from                              *)
(***************************************************************************)
MaxPassengers == 3
MaxPage == 3
MaxId == 4
MaxServed == 2

\* Records of the shape the data file holds (two of them share an id)
PassengerPool ==
  { [PassengerId |-> 1, Pclass |-> 1, Survived |-> 1, Name |-> <<"A", "b">>, Sex |-> "female"],
    [PassengerId |-> 2, Pclass |-> 3, Survived |-> 0, Name |-> <<"b", "A">>, Sex |-> "male"],
    [PassengerId |-> 1, Pclass |-> 2, Survived |-> 1, Name |-> <<"B">>,      Sex |-> "female"],
    [PassengerId |-> 3, Pclass |-> 2, Survived |-> 0, Name |-> <<"a", "b">>, Sex |-> "male"] }

PassengerLists == UNION { [1..n -> PassengerPool] : n \in 0..MaxPassengers }

DataFiles ==
  { [state |-> st, passengers |-> <<>>] : st \in {"missing", "malformed", "noarray"} }
    \cup { [state |-> "ok", passengers |-> l] : l \in PassengerLists }

\* Decimal renderings of positive integers, and other strings a client can send
DecimalParams(lo, hi) == { Str(DecStr(n)) : n \in lo..hi }

OddParams == { Str(<<>>), Str(<<"0">>), Str(<<"1", "e", "1">>), Str(<<"2", "x">>),
               Str(<<"-", "1">>), Str(<<"a">>) }

PageParams == {Undefined} \cup DecimalParams(1, MaxPage) \cup OddParams

IdParams == DecimalParams(0, MaxId) \cup (OddParams \ {Str(<<>>)})

ClassParams == DecimalParams(1, 4) \cup {Str(<<"2", "x">>), Str(<<"a">>)}

StatusParams == DecimalParams(0, 2) \cup {Str(<<"1", "e", "1">>)}

Letters == {"a", "A", "b", "B"}

NameParams == { Str(cs) : cs \in UNION { [1..n -> Letters] : n \in 1..2 } }

\* Bodies with every field present
FullBodies ==
  { [ pclass |-> Num(c), sex |-> Str(s), age |-> Num(a), sibsp |-> Num(sb),
      parch |-> Num(pc), fare |-> Num(f), embarked |-> Str(e) ] :
      c \in {1, 2, 3}, s \in {"female", "male", ""}, a \in {12, 25, 60, 61},
      sb \in {0, 1, 3}, pc \in {0, 2, 4}, f \in {2000, 5000, 21134}, e \in {"C", "S"} }

Fixture ==
  [ pclass |-> Num(1), sex |-> Str("female"), age |-> Num(29), sibsp |-> Num(0),
    parch |-> Num(0), fare |-> Num(21134), embarked |-> Str("S") ]

\* The fixture with any of its fields left out (undefined), or any set to null
PartialBodies ==
  { [f \in DOMAIN Fixture |-> IF f \in missing THEN how ELSE Fixture[f]] :
      missing \in SUBSET (DOMAIN Fixture), how \in {Undefined, Null} }

\* One field left out and another set to null
MixedBodies ==
  { [f \in DOMAIN Fixture |-> IF f = a THEN Undefined
                              ELSE IF f = n THEN Null ELSE Fixture[f]] :
      a \in DOMAIN Fixture, n \in DOMAIN Fixture }

Bodies == FullBodies \cup PartialBodies \cup MixedBodies

\* The bodies drawn when both services run side by side
FewBodies ==
  PartialBodies \cup { b \in FullBodies : b.age = Num(61) /\ b.fare = Num(5000) }

Clock == 1..3

(***************************************************************************)
(* The state machine                                                       *)
(***************************************************************************)
Init ==
  /\ \E file \in DataFiles :
       /\ passengersData = LoadData(file)
       /\ loadOk = (file.state = "ok")
  /\ loaded = passengersData
  /\ trainingData = TrainingSample
  /\ req = None
  /\ res = None
  /\ served = 0

\* The scoring server is a process of its own and reads no data file.
InitScoring ==
  /\ passengersData = <<>>
  /\ loadOk = FALSE
  /\ loaded = passengersData
  /\ trainingData = TrainingSample
  /\ req = None
  /\ res = None
  /\ served = 0

\* Array.prototype.splice(start, deleteCount): what is left in the array
SpliceRest(arr, start, deleteCount) ==
  LET k == RelativeIndex(start, Len(arr))
      n == Min(Max(IF deleteCount = NaN THEN 0 ELSE deleteCount.n, 0), Len(arr) - k)
  IN  SubSeq(arr, 1, k) \o SubSeq(arr, k + n + 1, Len(arr))

\* The list handler taking its page out of the array with splice
GetAllSplice ==
  /\ req = None
  /\ served < MaxServed
  /\ \E page \in PageParams, limit \in PageParams :
       LET p == IF page = Undefined THEN Num(1) ELSE page
           l == IF limit = Undefined THEN Num(20) ELSE limit
       IN  /\ req' = [kind |-> "all", page |-> page, limit |-> limit]
           /\ res' = GetAllResponse(passengersData, [page |-> page, limit |-> limit])
           /\ passengersData' = SpliceRest(passengersData, Times(Minus(p, Num(1)), l), Times(p, l))
  /\ served' = served + 1
  /\ UNCHANGED <<loadOk, loaded, trainingData>>

GetAll ==
  /\ req = None
  /\ served < MaxServed
  /\ \E page \in PageParams, limit \in PageParams :
       /\ req' = [kind |-> "all", page |-> page, limit |-> limit]
       /\ res' = GetAllResponse(passengersData, [page |-> page, limit |-> limit])
  /\ served' = served + 1
  /\ UNCHANGED <<passengersData, loadOk, loaded, trainingData>>

GetById ==
  /\ req = None
  /\ served < MaxServed
  /\ \E id \in IdParams :
       /\ req' = [kind |-> "id", id |-> id]
       /\ res' = GetByIdResponse(passengersData, id)
  /\ served' = served + 1
  /\ UNCHANGED <<passengersData, loadOk, loaded, trainingData>>

GetByClass ==
  /\ req = None
  /\ served < MaxServed
  /\ \E class \in ClassParams :
       /\ req' = [kind |-> "class", class |-> class]
       /\ res' = GetByClassResponse(passengersData, class)
  /\ served' = served + 1
  /\ UNCHANGED <<passengersData, loadOk, loaded, trainingData>>

GetBySurvived ==
  /\ req = None
  /\ served < MaxServed
  /\ \E status \in StatusParams :
       /\ req' = [kind |-> "survived", status |-> status]
       /\ res' = GetBySurvivedResponse(passengersData, status)
  /\ served' = served + 1
  /\ UNCHANGED <<passengersData, loadOk, loaded, trainingData>>

Search ==
  /\ req = None
  /\ served < MaxServed
  /\ \E name \in NameParams :
       /\ req' = [kind |-> "search", name |-> name]
       /\ res' = SearchResponse(passengersData, name)
  /\ served' = served + 1
  /\ UNCHANGED <<passengersData, loadOk, loaded, trainingData>>

StatsSummary ==
  /\ req = None
  /\ served < MaxServed
  /\ req' = [kind |-> "summary"]
  /\ res' = StatsSummaryResponse(passengersData)
  /\ served' = served + 1
  /\ UNCHANGED <<passengersData, loadOk, loaded, trainingData>>

PredictFrom(bodies) ==
  /\ req = None
  /\ served < MaxServed
  /\ \E body \in bodies :
       /\ req' = [kind |-> "predict", body |-> body]
       /\ res' = PredictResponse(body)
  /\ served' = served + 1
  /\ UNCHANGED <<passengersData, loadOk, loaded, trainingData>>

Predict == PredictFrom(Bodies)

PredictFew == PredictFrom(FewBodies)

TitanicStats ==
  /\ req = None
  /\ served < MaxServed
  /\ req' = [kind |-> "stats"]
  /\ res' = TitanicStatsResponse(trainingData)
  /\ served' = served + 1
  /\ UNCHANGED <<passengersData, loadOk, loaded, trainingData>>

Health ==
  /\ req = None
  /\ served < MaxServed
  /\ \E now \in Clock :
       /\ req' = [kind |-> "health"]
       /\ res' = HealthResponse(now)
  /\ served' = served + 1
  /\ UNCHANGED <<passengersData, loadOk, loaded, trainingData>>

\* The response has been sent; the request's objects are gone.
EndRequest ==
  /\ req # None
  /\ req' = None
  /\ res' = None
  /\ served' = served
  /\ UNCHANGED <<passengersData, loadOk, loaded, trainingData>>

QueryNext ==
  \/ GetAll
  \/ GetById
  \/ GetByClass
  \/ GetBySurvived
  \/ Search
  \/ StatsSummary
  \/ EndRequest

ScoringNext ==
  \/ Predict
  \/ TitanicStats
  \/ Health
  \/ EndRequest

Next ==
  \/ GetAll
  \/ GetById
  \/ GetByClass
  \/ GetBySurvived
  \/ Search
  \/ StatsSummary
  \/ PredictFew
  \/ TitanicStats
  \/ Health
  \/ EndRequest

\* Both services, side by side
Spec == Init /\ [][Next]_vars

\* The passenger query service alone
SpecQuery == Init /\ [][QueryNext]_vars

\* The scoring service alone
SpecScoring == InitScoring /\ [][ScoringNext]_vars

(***************************************************************************)
(* Properties of the scoring service                                       *)
(***************************************************************************)
Accepted == req.kind = "predict" /\ res.status = 200

SexAdjustment(v) ==
  CASE v = Str("female") -> 3
    [] v = Str("male")   -> -1
    [] OTHER             -> 0

ClassAdjustment(v) ==
  CASE v = Num(1) -> 2
    [] v = Num(2) -> 1
    [] v = Num(3) -> -1
    [] OTHER      -> 0

AgeAdjustment(age) ==
  CASE age <= 12 -> 2
    [] age > 12 /\ age <= 25 -> 1
    [] age > 60 -> -1
    [] OTHER -> 0

FamilyAdjustment(size) ==
  CASE size \in {1, 2} -> 1
    [] size > 4 -> -1
    [] OTHER -> 0

FareAdjustment(fare) ==
  CASE fare > 5000 -> 2
    [] fare > 2000 /\ fare <= 5000 -> 1
    [] OTHER -> 0

PortAdjustment(v) == IF v = Str("C") THEN 1 ELSE 0

AdjustmentSum(b) ==
  SexAdjustment(b.sex) + ClassAdjustment(b.pclass) + AgeAdjustment(b.age.n)
    + FamilyAdjustment(b.sibsp.n + b.parch.n) + FareAdjustment(b.fare.n)
    + PortAdjustment(b.embarked)

\* C1: for every accepted scoring input the returned score is the sum, from
\* 0, of the six adjustments for sex, class, age, family size, fare and port.
C1_ScoreIsSumOfAdjustments ==
  Accepted => res.body.score = AdjustmentSum(req.body)

\* A family of 4 (no adjustment), an age above 60 and a fare of exactly 50
C1_Witness ==
  /\ Accepted
  /\ req.body.sibsp.n + req.body.parch.n = 4
  /\ req.body.age = Num(61)
  /\ req.body.fare = Num(5000)
  /\ req.body.sex = Str("male")
  /\ res.body.score = AdjustmentSum(req.body)

IsMissing(v) == v = Undefined \/ v = Null

FieldOrder == <<"pclass", "sex", "age", "sibsp", "parch", "fare", "embarked">>

FirstMissingPosition(b) ==
  CHOOSE i \in 1..Len(FieldOrder) :
    /\ IsMissing(b[FieldOrder[i]])
    /\ \A j \in 1..(i - 1) : ~IsMissing(b[FieldOrder[j]])

\* C2: a predict request is rejected with 400 exactly when one of the seven
\* fields is absent or null (0 and "" are present); the error names the first
\* missing field in the fixed order and the rejection carries no prediction.
C2_RejectedIffFieldMissing ==
  req.kind = "predict" =>
    LET b == req.body
        missing == \E f \in DOMAIN b : IsMissing(b[f])
    IN  /\ res.status = 400 <=> missing
        /\ res.status \in {200, 400}
        /\ missing =>
             /\ DOMAIN res.body = {"error"}
             /\ res.body.error[2] = FieldOrder[FirstMissingPosition(b)]
        /\ ~missing => DOMAIN res.body = {"survived", "probability", "score", "features", "message"}

\* Two fields are missing (age null, fare absent); age, the earlier, is named
C2_Witness ==
  /\ req.kind = "predict"
  /\ req.body.age = Null
  /\ req.body.fare = Undefined
  /\ ~IsMissing(req.body.pclass) /\ ~IsMissing(req.body.sex)
  /\ res.status = 400
  /\ res.body.error[2] = "age"

\* C3: the fixture (class 1, female, 29, no family, fare 211.34, port S)
\* scores 7 and is predicted to survive.
C3_FixtureScoresSeven ==
  (req.kind = "predict" /\ req.body = Fixture) =>
    /\ res.status = 200
    /\ res.body.score = 7
    /\ res.body.survived = TRUE

C3_Witness ==
  /\ req.kind = "predict"
  /\ req.body = Fixture
  /\ res.status = 200
  /\ res.body.score = 7
  /\ res.body.survived

\* C10: for every accepted input the score is an integer in -4..11, survived
\* is true exactly when the score is positive (a score of 0 gives false), and
\* the message is the survivor text exactly when survived is true.
C10_SurvivedIffPositiveScore ==
  Accepted =>
    /\ res.body.score \in -4..11
    /\ res.body.survived <=> res.body.score > 0
    /\ res.body.message = SurvivorMessage <=> res.body.survived
    /\ res.body.message \in {SurvivorMessage, NonSurvivorMessage}

\* A score of exactly 0: probability one half, not a survivor
C10_Witness ==
  /\ Accepted
  /\ res.body.score = 0
  /\ 2 * res.body.probability = ProbScale
  /\ res.body.survived = FALSE
  /\ res.body.message = NonSurvivorMessage

(***************************************************************************)
(* Properties of the passenger query service                               *)
(***************************************************************************)

\* The decimal rendering of an integer, and the integer a parameter renders
SignedDecStr(n) == IF n < 0 THEN <<"-">> \o DecStr(-n) ELSE DecStr(n)

IsInteger(v, lo, hi) == \E n \in lo..hi : v = Str(SignedDecStr(n))

IntegerOf(v, lo, hi) == CHOOSE n \in lo..hi : v = Str(SignedDecStr(n))

PageOf(v)  == IF v = Undefined THEN 1  ELSE IntegerOf(v, 1, MaxPage)
LimitOf(v) == IF v = Undefined THEN 20 ELSE IntegerOf(v, 1, MaxPage)

ValidPaging(v) == v = Undefined \/ IsInteger(v, 1, MaxPage)

\* The elements of list at the 0-based indices [from, to), in list order
Window(list, from, to) ==
  LET last == IF to < Len(list) THEN to ELSE Len(list)
      size == IF last > from THEN last - from ELSE 0
  IN  [i \in 1..size |-> list[from + i]]

\* C4: for page >= 1 and limit >= 1 (defaults 1 and 20) the list endpoint
\* returns exactly the records at indices [(page-1)*limit, page*limit) in list
\* order, at most limit of them, with the full length as total and page and
\* limit echoed; a page beyond the end gives an empty data array and a 200.
C4_PageIsContiguousSlice ==
  (req.kind = "all" /\ ValidPaging(req.page) /\ ValidPaging(req.limit)) =>
    LET page  == PageOf(req.page)
        limit == LimitOf(req.limit)
    IN  /\ res.status = 200
        /\ res.body.data = Window(loaded, (page - 1) * limit, page * limit)
        /\ Len(res.body.data) <= limit
        /\ res.body.total = Len(loaded)
        /\ res.body.page = Num(page)
        /\ res.body.limit = Num(limit)
        /\ (page - 1) * limit >= Len(loaded) => res.body.data = <<>>

\* The second page of one record out of a list of three
C4_Witness ==
  /\ req.kind = "all"
  /\ req.page = Str(<<"2">>)
  /\ req.limit = Str(<<"1">>)
  /\ Len(loaded) = 3
  /\ loaded[1] # loaded[2] /\ loaded[2] # loaded[3]
  /\ res.status = 200
  /\ res.body.data = <<loaded[2]>>

Positions(list, id) == { i \in 1..Len(list) : list[i].PassengerId = id }

FirstPosition(list, id) ==
  CHOOSE i \in Positions(list, id) : \A j \in Positions(list, id) : i <= j

\* C5: lookup by identifier answers every integer id: the first record in
\* list order with that PassengerId when one exists, 404 otherwise; never 500.
C5_LookupIsTotal ==
  req.kind = "id" =>
    /\ res.status \in {200, 404}
    /\ IsInteger(req.id, -1, MaxId) =>
         LET id == IntegerOf(req.id, -1, MaxId)
         IN  IF Positions(loaded, id) # {}
             THEN /\ res.status = 200
                  /\ res.body = loaded[FirstPosition(loaded, id)]
                  /\ res.body.PassengerId = id
             ELSE res.status = 404

\* Two different records share the id; the earlier one is returned
C5_Witness ==
  /\ req.kind = "id"
  /\ req.id = Str(<<"1">>)
  /\ Len(loaded) = 3
  /\ loaded[2].PassengerId = 1 /\ loaded[3].PassengerId = 1
  /\ loaded[1].PassengerId # 1
  /\ loaded[2] # loaded[3]
  /\ res.status = 200
  /\ res.body = loaded[2]

Matching(list, Keep(_)) ==
  LET idx == { i \in 1..Len(list) : Keep(list[i]) }
  IN  [ k \in 1..Cardinality(idx) |->
          list[CHOOSE i \in idx : Cardinality({ j \in idx : j <= i }) = k] ]

SameLetter(a, b) == a = b \/ {a, b} = {"a", "A"} \/ {a, b} = {"b", "B"}

\* part occurs in cs, letter case ignored
ContainsIgnoringCase(cs, part) ==
  \E i \in 1..(Len(cs) - Len(part) + 1) :
    \A k \in 1..Len(part) : SameLetter(cs[i + k - 1], part[k])

\* C7: each filter returns exactly the matching records in their original
\* order, with count the length of data; filtering the result again changes
\* nothing; the name search ignores the letter case of term and of name.
C7_FiltersKeepMatchesInOrder ==
  /\ (req.kind = "class" /\ IsInteger(req.class, 1, 4)) =>
       LET InClass(p) == p.Pclass = IntegerOf(req.class, 1, 4)
       IN  /\ res.body.data = Matching(loaded, InClass)
           /\ res.body.count = Len(res.body.data)
           /\ GetByClassResponse(res.body.data, req.class).body.data = res.body.data
  /\ (req.kind = "survived" /\ IsInteger(req.status, 0, 2)) =>
       LET WithFlag(p) == p.Survived = IntegerOf(req.status, 0, 2)
       IN  /\ res.body.data = Matching(loaded, WithFlag)
           /\ res.body.count = Len(res.body.data)
           /\ GetBySurvivedResponse(res.body.data, req.status).body.data = res.body.data
  /\ req.kind = "search" =>
       LET Named(p) == ContainsIgnoringCase(p.Name, req.name.s)
       IN  /\ res.body.data = Matching(loaded, Named)
           /\ res.body.count = Len(res.body.data)
           /\ SearchResponse(res.body.data, req.name).body.data = res.body.data

\* An upper-case term finds the names written "Ab" and "ab", not "bA"
C7_Witness ==
  /\ req.kind = "search"
  /\ req.name = Str(<<"A", "B">>)
  /\ Len(loaded) = 3
  /\ loaded[1].Name = <<"A", "b">>
  /\ loaded[2].Name = <<"b", "A">>
  /\ loaded[3].Name = <<"a", "b">>
  /\ res.body.count = 2
  /\ res.body.data = <<loaded[1], loaded[3]>>

IsDigitChar(c) == c \in {"0", "1", "2", "3", "4", "5", "6", "7", "8", "9"}

\* digits, a point, two digits and a percent sign
WellFormedPercent(cs) ==
  /\ Len(cs) >= 5
  /\ cs[Len(cs)] = "%"
  /\ cs[Len(cs) - 3] = "."
  /\ \A i \in 1..(Len(cs) - 1) : i # Len(cs) - 3 => IsDigitChar(cs[i])

\* C9: after a failed load the service runs on an empty list and every
\* endpoint answers without a server error: empty pages, 404 for any id,
\* empty filters, and a summary of zeros with a well-formed two-decimal
\* percentage as survival rate.
C9_EmptyDatasetAnswersWell ==
  (~loadOk /\ req # None) =>
    /\ res.status # 500
    /\ req.kind = "all" => res.body.total = 0 /\ res.body.data = <<>>
    /\ req.kind = "id" => res.status = 404
    /\ req.kind \in {"class", "survived", "search"} =>
         res.body.count = 0 /\ res.body.data = <<>>
    /\ req.kind = "summary" =>
         /\ res.body.totalPassengers = 0
         /\ res.body.byClass = <<0, 0, 0>>
         /\ res.body.byGender = [male |-> 0, female |-> 0]
         /\ WellFormedPercent(res.body.survivalRate)

\* The same, without the shape of the survival rate
C9_EmptyDatasetNoServerError ==
  (~loadOk /\ req # None) =>
    /\ res.status # 500
    /\ req.kind = "all" => res.body.total = 0 /\ res.body.data = <<>>
    /\ req.kind = "id" => res.status = 404
    /\ req.kind \in {"class", "survived", "search"} =>
         res.body.count = 0 /\ res.body.data = <<>>
    /\ req.kind = "summary" =>
         /\ res.body.totalPassengers = 0
         /\ res.body.byClass = <<0, 0, 0>>
         /\ res.body.byGender = [male |-> 0, female |-> 0]
         /\ res.body.survivalRate = <<"N", "a", "N", "%">>

(***************************************************************************)
(* Statelessness of both services                                          *)
(***************************************************************************)

\* What the handlers answer to a request on the load-time data
AnswerOnLoadTimeData(r) ==
  CASE r.kind = "all"      -> GetAllResponse(loaded, [page |-> r.page, limit |-> r.limit])
    [] r.kind = "id"       -> GetByIdResponse(loaded, r.id)
    [] r.kind = "class"    -> GetByClassResponse(loaded, r.class)
    [] r.kind = "survived" -> GetBySurvivedResponse(loaded, r.status)
    [] r.kind = "search"   -> SearchResponse(loaded, r.name)
    [] r.kind = "summary"  -> StatsSummaryResponse(loaded)
    [] r.kind = "predict"  -> PredictResponse(r.body)
    [] r.kind = "stats"    -> TitanicStatsResponse(TrainingSample)

\* C8: after any sequence of requests to either service the passenger list
\* and the sample are as they were at load time, and the response to a
\* request is the one given on the load-time data, whatever was handled
\* before (the health probe's timestamp, the clock reading, apart).
C8_HandlersAreStateless ==
  /\ passengersData = loaded
  /\ trainingData = TrainingSample
  /\ (req # None /\ req.kind # "health") => res = AnswerOnLoadTimeData(req)
  /\ req.kind = "health" =>
       /\ res.status = 200
       /\ res.body.status = "OK"
       /\ res.body.message = HealthResponse(0).body.message

\* A second request, a page of a loaded list, answered after a first one
C8_Witness ==
  /\ served = 2
  /\ req.kind = "all"
  /\ req.page = Str(<<"1">>)
  /\ req.limit = Str(<<"2">>)
  /\ Len(loaded) = 3
  /\ passengersData = loaded
  /\ res.body.data = <<loaded[1], loaded[2]>>

====
